---- MODULE Spec2Model ----
(***************************************************************************)
(* The users resource of the gym-app backend (backend/routes/users.py):    *)
(* the user table, the role guard in front of every endpoint and the       *)
(* sixteen request handlers.  A request is one atomic step in Spec (one    *)
(* session, one commit); SpecConc splits the three username writers into   *)
(* their uniqueness pre-check and their later commit.                      *)
(*                                                                         *)
(* A user row is keyed by its uuid (the surrogate id and the uuid name the *)
(* same row, so one key stands for both).  A detail message is the         *)
(* sequence of the pieces its f-string is built from.  A Role row is       *)
(* represented by its name.                                                *)
(***************************************************************************)
EXTENDS Integers, Sequences, FiniteSets, TLC

VARIABLES users, nextUuid, sessions, resp

vars == <<users, nextUuid, sessions, resp>>

(* ------------------------------ bounds -------------------------------- *)

\* uuids 1..MaxUuid can be handed out to rows; a uuid not handed out yet is
\* the uuid of no row
MaxUuid == 2

\* requests that are between their pre-check and their commit (SpecConc)
MaxSessions == 2

(* ------------------------------ inputs -------------------------------- *)

\* the usernames a request may ask for
Usernames == {"alice", "bob"}

\* the passwords a request may carry (the seeded administrator has "x")
Passwords == {"y"}

\* the seeded Role table
Roles == {"Admin", "User"}

\* Python's None, and what an f-string prints for it
None == "None"

\* a field a PATCH body does not set (exclude_unset drops it)
Unset == "<unset>"

Callers == 1..MaxUuid

Targets == 1..MaxUuid

\* the role lists a change_roles request carries
RoleLists ==
  {<<>>, <<"User">>, <<"Admin">>, <<"User", "Admin">>, <<"Ghost">>, <<"User", "Ghost">>}

Body(u, p, r) == [username |-> u, password |-> p, roles |-> r]

NoBody == Body(Unset, Unset, <<>>)

\* a request that passed its pre-check and has not committed yet
Pending(op, c, t, body) == [op |-> op, caller |-> c, target |-> t, body |-> body]

Idle == Pending("idle", 0, 0, NoBody)

\* UserCreateReq / UserPutReq: every field set
UserPutReq == {Body(u, p, <<>>) : u \in Usernames, p \in Passwords}

\* UserPatchReq: a field may be left out
UserPatchReq ==
  {Body(u, Unset, <<>>) : u \in Usernames} \cup {Body(Unset, p, <<>>) : p \in Passwords}
    \cup {NoBody}

(* --------------------------- the user table --------------------------- *)

Row(u, p, r) == [username |-> u, hashed_password |-> p, roles |-> r]

Exists(t) == t \in DOMAIN users

\* the pre-check forgotten
username_exists_never(name) == FALSE

\* select(User).where(User.username == name).first() finds a row
username_exists(name) == \E u \in DOMAIN users : users[u].username = name

\* ... .where(User.id != me).where(User.username == name).first() finds a row
username_exists_other(me, name) ==
  \E u \in DOMAIN users : u # me /\ users[u].username = name

\* a store without the constraint
unique_username_absent(us) == TRUE

\* the unique constraint on user.username, enforced by the store at commit
unique_username(us) ==
  \A u, v \in DOMAIN us : u # v => us[u].username # us[v].username

Without(us, t) == [u \in DOMAIN us \ {t} |-> us[u]]

With(us, t, row) == [u \in DOMAIN us \cup {t} |-> IF u = t THEN row ELSE us[u]]

(* ----------------------------- responses ------------------------------ *)

Out(status, detail, us) == [status |-> status, detail |-> detail, users |-> us]

Resp(op, c, t, body, status, detail, ran) ==
  [op |-> op, caller |-> c, target |-> t, body |-> body,
   status |-> status, detail |-> detail, ran |-> ran]

user_not_found(t) == <<"User UUID:", ToString(t), "not found.">>

username_taken(name) == <<"Username:", name, "already exists.">>

role_not_found(role) == <<"Role:", role, "not found.">>

\* an exception no handler catches
server_error == <<"Internal Server Error">>

\* the plural chosen by len(data) > 1
list_detail_gt(n, plural, singular) ==
  IF n > 1 THEN <<ToString(n), plural, "fetched successfully.">>
           ELSE <<ToString(n), singular, "fetched successfully.">>

\* f"{len(data)} users fetched successfully." if len(data) != 1 else f"{len(data)} user ..."
list_detail(n, plural, singular) ==
  IF n # 1 THEN <<ToString(n), plural, "fetched successfully.">>
           ELSE <<ToString(n), singular, "fetched successfully.">>

\* session.commit(): the write is kept unless the unique constraint rejects it
commit(status, detail, us) ==
  IF unique_username(us) THEN Out(status, detail, us)
                         ELSE Out(500, server_error, users)

(* --------------------------- authorization ---------------------------- *)

\* the credential's subject resolves to a stored user, or the request is 401
get_current_user(c) == IF c \in DOMAIN users THEN c ELSE 0

\* a guard that asks for every required role
check_roles_all(required, held) == required \subseteq held

\* the guard proceeds when the caller has one of the required roles
check_roles(required, held) == held \cap required # {}

AdminOnly == {"get_users_and_admins", "get_admins", "get_users", "get_specific_user",
              "update_user", "patch_user", "patch_user_username",
              "patch_user_password", "patch_user_role", "delete_user"}

UserOrAdmin == {"get_logged_in_user", "update_logged_in_user", "patch_logged_in_user",
                "patch_logged_in_user_username", "patch_logged_in_user_password"}

\* the list each endpoint hands to @check_roles
RequiredRoles(op) == IF op \in AdminOnly THEN {"Admin"} ELSE {"User", "Admin"}

\* a guarded endpoint: resolve the caller, check the roles, run the handler
\* (a request the guard rejects never shows its arguments to a handler)
Request(op, c, t, body, out) ==
  /\ UNCHANGED <<nextUuid, sessions>>
  /\ IF get_current_user(c) = 0
       THEN /\ resp' = Resp(op, c, 0, NoBody, 401, <<"Could not validate credentials">>, FALSE)
            /\ UNCHANGED users
       ELSE IF ~check_roles(RequiredRoles(op), users[c].roles)
         THEN /\ resp' = Resp(op, c, 0, NoBody, 403, <<"Forbidden">>, FALSE)
              /\ UNCHANGED users
         ELSE /\ resp' = Resp(op, c, t, body, out.status, out.detail, TRUE)
              /\ users' = out.users

(* ------------------------------ handlers ------------------------------ *)

\* setattr(user, attr, value) for every attr of the body that is set
overwrite(row, body) ==
  Row(IF body.username = Unset THEN row.username ELSE body.username,
      IF body.password = Unset THEN row.hashed_password ELSE body.password,
      row.roles)

\* select(User).join(User.roles).where(Role.name == name)
with_role(name) == {u \in DOMAIN users : name \in users[u].roles}

get_users_and_admins ==
  \E c \in Callers :
    Request("get_users_and_admins", c, 0, NoBody,
            Out(200, list_detail(Cardinality(DOMAIN users), "users", "user"), users))

get_logged_in_user ==
  \E c \in Callers :
    Request("get_logged_in_user", c, 0, NoBody,
            Out(200, <<"User fetched successfully.">>, users))

get_admins ==
  \E c \in Callers :
    Request("get_admins", c, 0, NoBody,
            Out(200, list_detail(Cardinality(with_role("Admin")), "admins", "admin"), users))

get_users ==
  \E c \in Callers :
    Request("get_users", c, 0, NoBody,
            Out(200, list_detail(Cardinality(with_role("User")), "users", "user"), users))

\* the not-found test is on current_user, not on user: a missing user reaches
\* user.roles and the request dies of an AttributeError
get_specific_user_body(c, t) ==
  IF ~Exists(c) THEN Out(404, user_not_found(t), users)
  ELSE IF ~Exists(t) THEN Out(500, server_error, users)
  ELSE Out(200, <<"User fetched successfully.">>, users)

get_specific_user ==
  \E c \in Callers, t \in Targets :
    Request("get_specific_user", c, t, NoBody, get_specific_user_body(c, t))

\* the uuid the new row gets
new_uuid == nextUuid

\* the append of the "User" role forgotten
register_roles_none == {}

\* the roles of a new row: user.roles is empty, then the "User" role is appended
register_roles == {} \cup {"User"}

\* lines 65-70: build the row, append the role, add, commit
add_user_write(body) ==
  /\ LET out == commit(201, <<"New User has been added.">>,
                       With(users, new_uuid,
                            Row(body.username, body.password, register_roles)))
     IN /\ resp' = Resp("add_user", 0, new_uuid, body, out.status, out.detail, TRUE)
        /\ users' = out.users
        /\ nextUuid' = IF out.status = 201 THEN nextUuid + 1 ELSE nextUuid

add_user ==
  \E body \in UserPutReq :
    /\ nextUuid <= MaxUuid
    /\ UNCHANGED sessions
    /\ IF username_exists(body.username)
         THEN /\ resp' = Resp("add_user", 0, 0, body, 409, username_taken(body.username), TRUE)
              /\ UNCHANGED <<users, nextUuid>>
         ELSE add_user_write(body)

update_logged_in_user ==
  \E c \in Callers, body \in UserPutReq :
    Request("update_logged_in_user", c, c, body,
            commit(200, <<"User updated.">>, [users EXCEPT ![c] = overwrite(@, body)]))

update_body(t, body) ==
  IF ~Exists(t) THEN Out(404, user_not_found(t), users)
  ELSE commit(200, <<"User updated.">>, [users EXCEPT ![t] = overwrite(@, body)])

update_user ==
  \E c \in Callers, t \in Targets, body \in UserPutReq :
    Request("update_user", c, t, body, update_body(t, body))

patch_logged_in_user ==
  \E c \in Callers, body \in UserPatchReq :
    Request("patch_logged_in_user", c, c, body,
            commit(200, <<"User updated.">>, [users EXCEPT ![c] = overwrite(@, body)]))

patch_user ==
  \E c \in Callers, t \in Targets, body \in UserPatchReq :
    Request("patch_user", c, t, body, update_body(t, body))

\* lines 133-134 and 149-150: user.username = ...; session.commit()
username_write(t, name) ==
  commit(200, <<"User updated.">>, [users EXCEPT ![t].username = name])

patch_logged_in_user_username ==
  \E c \in Callers, name \in Usernames :
    Request("patch_logged_in_user_username", c, c, Body(name, Unset, <<>>),
            IF username_exists_other(c, name)
              THEN Out(409, username_taken(name), users)
              ELSE username_write(c, name))

\* the self-target test forgotten
is_self_never(c, t) == FALSE

\* if current_user.uuid == user_uuid
is_self(c, t) == c = t

\* lines 142-148: the checks before the write; status 0 stands for "passed"
patch_user_username_check(c, t, name) ==
  IF is_self(c, t) THEN Out(403, <<"You cannot change your own username.">>, users)
  ELSE IF ~Exists(t) THEN Out(404, user_not_found(t), users)
  ELSE IF username_exists(name) THEN Out(409, username_taken(name), users)
  ELSE Out(0, <<>>, users)

patch_user_username_body(c, t, name) ==
  IF patch_user_username_check(c, t, name).status # 0
    THEN patch_user_username_check(c, t, name)
    ELSE username_write(t, name)

patch_user_username ==
  \E c \in Callers, t \in Targets, name \in Usernames :
    Request("patch_user_username", c, t, Body(name, Unset, <<>>),
            patch_user_username_body(c, t, name))

patch_logged_in_user_password ==
  \E c \in Callers, pw \in Passwords :
    Request("patch_logged_in_user_password", c, c, Body(Unset, pw, <<>>),
            commit(200, <<"User updated.">>, [users EXCEPT ![c].hashed_password = pw]))

patch_user_password_body(c, t, pw) ==
  IF is_self(c, t) THEN Out(403, <<"You cannot change your own password.">>, users)
  ELSE IF ~Exists(t) THEN Out(404, user_not_found(t), users)
  ELSE commit(200, <<"User updated.">>, [users EXCEPT ![t].hashed_password = pw])

patch_user_password ==
  \E c \in Callers, t \in Targets, pw \in Passwords :
    Request("patch_user_password", c, t, Body(Unset, pw, <<>>),
            patch_user_password_body(c, t, pw))

\* select(Role).where(Role.name == role).first()
select_role(name) == IF name \in Roles THEN name ELSE None

\* the loop committing each role as it resolves it
RECURSIVE resolve_roles_eager(_, _, _)
resolve_roles_eager(t, names, roles) ==
  IF names = <<>>
    THEN commit(200, <<"User updated.">>, [users EXCEPT ![t].roles = roles])
    ELSE LET role == IF Head(names) \in Roles THEN Head(names) ELSE None
         IN IF role = None
              THEN Out(404, role_not_found(role), [users EXCEPT ![t].roles = roles])
              ELSE resolve_roles_eager(t, Tail(names), roles \cup {role})

\* the loop over update_user_request.roles: `role` is rebound to the row the
\* query returns, so the not-found message prints that row, None
RECURSIVE resolve_roles(_, _, _)
resolve_roles(t, names, roles) ==
  IF names = <<>>
    THEN commit(200, <<"User updated.">>, [users EXCEPT ![t].roles = roles])
    ELSE LET role == select_role(Head(names))
         IN IF role = None
              THEN Out(404, role_not_found(role), users)
              ELSE resolve_roles(t, Tail(names), roles \cup {role})

patch_user_role_body(c, t, names) ==
  IF is_self(c, t) THEN Out(403, <<"You cannot change your own roles.">>, users)
  ELSE IF ~Exists(t) THEN Out(404, user_not_found(t), users)
  ELSE resolve_roles(t, names, {})

patch_user_role ==
  \E c \in Callers, t \in Targets, names \in RoleLists :
    Request("patch_user_role", c, t, Body(Unset, Unset, names),
            patch_user_role_body(c, t, names))

delete_user_body(t) ==
  IF ~Exists(t) THEN Out(404, user_not_found(t), users)
  ELSE Out(204, <<>>, Without(users, t))

delete_user ==
  \E c \in Callers, t \in Targets :
    Request("delete_user", c, t, NoBody, delete_user_body(t))

(* ------------- the username writers, pre-check and commit apart -------- *)

FreeSession(s) == sessions[s] = Idle

\* a guarded request up to the end of its pre-check: rejected by the guard,
\* failed by the pre-check (pre.status # 0), or left pending in session s
Begin(s, op, c, t, body, pre) ==
  /\ FreeSession(s)
  /\ UNCHANGED <<users, nextUuid>>
  /\ IF get_current_user(c) = 0
       THEN /\ resp' = Resp(op, c, 0, NoBody, 401, <<"Could not validate credentials">>, FALSE)
            /\ UNCHANGED sessions
       ELSE IF ~check_roles(RequiredRoles(op), users[c].roles)
         THEN /\ resp' = Resp(op, c, 0, NoBody, 403, <<"Forbidden">>, FALSE)
              /\ UNCHANGED sessions
         ELSE IF pre.status # 0
           THEN /\ resp' = Resp(op, c, t, body, pre.status, pre.detail, TRUE)
                /\ UNCHANGED sessions
           ELSE /\ sessions' = [sessions EXCEPT ![s] = Pending(op, c, t, body)]
                /\ UNCHANGED resp

\* the rest of a pending username change: the UPDATE and its commit
Finish(s, op) ==
  /\ sessions[s].op = op
  /\ Exists(sessions[s].target)
  /\ LET p == sessions[s]
         out == username_write(p.target, p.body.username)
     IN /\ resp' = Resp(op, p.caller, p.target, p.body, out.status, out.detail, TRUE)
        /\ users' = out.users
  /\ sessions' = [sessions EXCEPT ![s] = Idle]
  /\ UNCHANGED nextUuid

add_user_begin ==
  \E s \in 1..MaxSessions, body \in UserPutReq :
    /\ FreeSession(s)
    /\ nextUuid <= MaxUuid
    /\ UNCHANGED <<users, nextUuid>>
    /\ IF username_exists(body.username)
         THEN /\ resp' = Resp("add_user", 0, 0, body, 409, username_taken(body.username), TRUE)
              /\ UNCHANGED sessions
         ELSE /\ sessions' = [sessions EXCEPT ![s] = Pending("add_user", 0, 0, body)]
              /\ UNCHANGED resp

add_user_finish ==
  \E s \in 1..MaxSessions :
    /\ sessions[s].op = "add_user"
    /\ nextUuid <= MaxUuid
    /\ add_user_write(sessions[s].body)
    /\ sessions' = [sessions EXCEPT ![s] = Idle]

patch_logged_in_user_username_begin ==
  \E s \in 1..MaxSessions, c \in Callers, name \in Usernames :
    Begin(s, "patch_logged_in_user_username", c, c, Body(name, Unset, <<>>),
          IF username_exists_other(c, name)
            THEN Out(409, username_taken(name), users)
            ELSE Out(0, <<>>, users))

patch_logged_in_user_username_finish ==
  \E s \in 1..MaxSessions : Finish(s, "patch_logged_in_user_username")

patch_user_username_begin ==
  \E s \in 1..MaxSessions, c \in Callers, t \in Targets, name \in Usernames :
    Begin(s, "patch_user_username", c, t, Body(name, Unset, <<>>),
          patch_user_username_check(c, t, name))

patch_user_username_finish ==
  \E s \in 1..MaxSessions : Finish(s, "patch_user_username")

(* --------------------------- specification ---------------------------- *)

\* the seeded store: the Role rows and one administrator
Init ==
  /\ users = (1 :> Row("root", "x", {"User", "Admin"}))
  /\ nextUuid = 2
  /\ sessions = [s \in 1..MaxSessions |-> Idle]
  /\ resp = Resp("none", 0, 0, NoBody, 0, <<>>, FALSE)

Next ==
  \/ get_users_and_admins
  \/ get_logged_in_user
  \/ get_admins
  \/ get_users
  \/ get_specific_user
  \/ add_user
  \/ update_logged_in_user
  \/ update_user
  \/ patch_logged_in_user
  \/ patch_user
  \/ patch_logged_in_user_username
  \/ patch_user_username
  \/ patch_logged_in_user_password
  \/ patch_user_password
  \/ patch_user_role
  \/ delete_user

Spec == Init /\ [][Next]_vars

\* requests run concurrently: a username writer's commit comes some steps
\* after its pre-check, with other requests in between
NextConc ==
  \/ add_user_begin
  \/ add_user_finish
  \/ patch_logged_in_user_username_begin
  \/ patch_logged_in_user_username_finish
  \/ patch_user_username_begin
  \/ patch_user_username_finish

SpecConc == Init /\ [][NextConc]_vars

(* ------------------------------- claims -------------------------------- *)

InDetail(x, d) == \E i \in DOMAIN d : d[i] = x

HoldersOf(us, name) == {u \in DOMAIN us : us[u].username = name}

AsSet(names) == {names[i] : i \in DOMAIN names}

ListOps == {"get_users_and_admins", "get_admins", "get_users"}

UuidOps == {"get_specific_user", "update_user", "patch_user", "patch_user_username",
            "patch_user_password", "patch_user_role", "delete_user"}

AdminChangeOps == {"patch_user_username", "patch_user_password", "patch_user_role"}

\* C1: for an authenticated caller with role set R and an endpoint requiring Q,
\* the handler runs iff R and Q share a role; otherwise the request ends 403,
\* the handler does not run and the store is unchanged.
C1_GuardIffRolesIntersect ==
  [][(resp'.op \in AdminOnly \cup UserOrAdmin /\ resp'.caller \in DOMAIN users) =>
       LET R == users[resp'.caller].roles
           Q == IF resp'.op \in AdminOnly THEN {"Admin"} ELSE {"User", "Admin"}
       IN /\ resp'.ran <=> (\E r \in R : r \in Q)
          /\ ~resp'.ran => (resp'.status = 403 /\ users' = users /\ nextUuid' = nextUuid)]_vars

\* a caller who holds only "User" was turned away from an admin endpoint
C1_Witness ==
  /\ resp.op \in AdminOnly
  /\ resp.status = 403
  /\ ~resp.ran
  /\ resp.caller \in DOMAIN users
  /\ users[resp.caller].roles = {"User"}

C3_NewUserHasUserRole ==
  (resp.op = "add_user" /\ resp.status = 201) =>
    (resp.target \in DOMAIN users /\ users[resp.target].roles = {"User"})

\* a registration succeeded while an administrator was stored
C3_Witness ==
  /\ resp.op = "add_user"
  /\ resp.status = 201
  /\ resp.target \in DOMAIN users
  /\ \E u \in DOMAIN users : "Admin" \in users[u].roles

\* C4: every stored user has the "User" role, in every reachable state.
C4_EveryUserHasUserRole ==
  \A u \in DOMAIN users : "User" \in users[u].roles

\* C5: the admin routes change_username, change_password and change_roles end
\* 403 with the store unchanged when the target is the caller, before any other
\* check; on another existing user, when no other check fails, they succeed and
\* set the targeted field to the requested value.
C5_AdminSelfTargetForbidden ==
  [][(resp'.op \in AdminChangeOps /\ resp'.ran) =>
       LET c == resp'.caller
           t == resp'.target
           b == resp'.body
           checksPass ==
             CASE resp'.op = "patch_user_username" -> HoldersOf(users, b.username) = {}
               [] resp'.op = "patch_user_password" -> TRUE
               [] resp'.op = "patch_user_role" -> AsSet(b.roles) \subseteq {"Admin", "User"}
           changed ==
             CASE resp'.op = "patch_user_username" -> users'[t].username = b.username
               [] resp'.op = "patch_user_password" -> users'[t].hashed_password = b.password
               [] resp'.op = "patch_user_role" -> users'[t].roles = AsSet(b.roles)
       IN /\ c = t => (resp'.status = 403 /\ users' = users)
          /\ (c # t /\ t \in DOMAIN users /\ checksPass) =>
               (resp'.status = 200 /\ t \in DOMAIN users' /\ changed)]_vars

\* an administrator aimed change_roles at their own uuid and was refused
C5_Witness ==
  /\ resp.op = "patch_user_role"
  /\ resp.ran
  /\ resp.caller = resp.target
  /\ resp.status = 403
  /\ AsSet(resp.body.roles) \subseteq {"Admin", "User"}

\* C6: an admin's DELETE of a uuid with no row ends 404 with the store
\* unchanged, of a stored uuid removes that row alone and ends 204; an admin's
\* GET of a uuid that has no row (deleted, or never there) ends 404.
C6_DeleteThenFetchNotFound ==
  [][/\ (resp'.op = "delete_user" /\ resp'.ran) =>
          IF resp'.target \in DOMAIN users
            THEN resp'.status = 204 /\ users' = Without(users, resp'.target)
            ELSE resp'.status = 404 /\ users' = users
     /\ (resp'.op = "get_specific_user" /\ resp'.ran /\ resp'.target \notin DOMAIN users)
          => resp'.status = 404]_vars

\* C7: a list endpoint's detail starts with the number n of returned items and
\* uses the singular noun iff n = 1, the plural noun otherwise.
C7_ListDetailSingularIffOne ==
  (resp.op \in ListOps /\ resp.ran) =>
    LET n == CASE resp.op = "get_users_and_admins" -> Cardinality(DOMAIN users)
               [] resp.op = "get_admins" ->
                    Cardinality({u \in DOMAIN users : "Admin" \in users[u].roles})
               [] resp.op = "get_users" ->
                    Cardinality({u \in DOMAIN users : "User" \in users[u].roles})
        one == IF resp.op = "get_admins" THEN "admin" ELSE "user"
        many == IF resp.op = "get_admins" THEN "admins" ELSE "users"
    IN /\ resp.detail[1] = ToString(n)
       /\ resp.detail[2] = (IF n = 1 THEN one ELSE many)

\* a list endpoint returned no item at all
C7_Witness ==
  /\ resp.op = "get_users"
  /\ resp.ran
  /\ resp.status = 200
  /\ \A u \in DOMAIN users : "User" \notin users[u].roles

\* C8: a keyed lookup that finds nothing ends 404 with the key in the detail:
\* the uuid for the /users/{uuid} endpoints, the role name for change_roles.
C8_NotFoundCarriesKey ==
  [][resp'.ran =>
       /\ (resp'.op \in UuidOps /\ resp'.target \notin DOMAIN users) =>
            (resp'.status = 404 /\ InDetail(ToString(resp'.target), resp'.detail))
       /\ (/\ resp'.op = "patch_user_role"
           /\ resp'.target \in DOMAIN users
           /\ resp'.caller # resp'.target
           /\ ~(AsSet(resp'.body.roles) \subseteq {"Admin", "User"})) =>
            LET names == resp'.body.roles
                first == CHOOSE i \in DOMAIN names :
                           /\ names[i] \notin {"Admin", "User"}
                           /\ \A j \in 1..(i - 1) : names[j] \in {"Admin", "User"}
            IN resp'.status = 404 /\ InDetail(names[first], resp'.detail)]_vars

\* C9: no two stored users have the same username, whatever the interleaving
\* of the pre-checks and commits of concurrent username writers.
C9_UsernamesUnique ==
  \A u, v \in DOMAIN users : u # v => users[u].username # users[v].username

\* two writers passed the pre-check for one username; one committed, the other
\* was turned down at its commit
C9_Witness ==
  /\ resp.ran
  /\ resp.status = 500
  /\ resp.op \in {"add_user", "patch_logged_in_user_username", "patch_user_username"}
  /\ HoldersOf(users, resp.body.username) # {}
  /\ \A s \in DOMAIN sessions : sessions[s] = Idle

\* C10: a request a handler ends with 403, 404 or 409 leaves the store as it
\* was: no row added or removed, no username, password or role set changed.
C10_ErrorLeavesStoreUnchanged ==
  [][(resp'.ran /\ resp'.status \in {403, 404, 409}) =>
       (users' = users /\ nextUuid' = nextUuid)]_vars

\* change_roles named a stored role and then an unknown one, for a target whose
\* roles differ from the stored one named
C10_Witness ==
  /\ resp.op = "patch_user_role"
  /\ resp.status = 404
  /\ resp.body.roles = <<"User", "Ghost">>
  /\ resp.target \in DOMAIN users
  /\ users[resp.target].roles # {"User"}

====
